---------------------------- MODULE Spec2Model ----------------------------
(***************************************************************************)
(* A model of schemafy_lib's Expander (schemafy-near/schemafy_lib/src/     *)
(* lib.rs): the pass that turns a JSON-schema document into an ordered     *)
(* list of named type declarations.                                        *)
(*                                                                         *)
(* Rust strings are sequences of one-character strings, so that case       *)
(* conversion, sanitising and prefix tests are computed as the code        *)
(* computes them.  Option<T> is a sequence of length 0 (None) or 1 (Some). *)
(* A BTreeMap is a sequence of [k, v] entries in key order.                *)
(***************************************************************************)
EXTENDS Integers, Sequences, FiniteSets, TLC

(***************************************************************************)
(* Characters (the ASCII part of char::is_alphanumeric and friends).       *)
(***************************************************************************)
LowerChars ==
    <<"a","b","c","d","e","f","g","h","i","j","k","l","m",
      "n","o","p","q","r","s","t","u","v","w","x","y","z">>

UpperChars ==
    <<"A","B","C","D","E","F","G","H","I","J","K","L","M",
      "N","O","P","Q","R","S","T","U","V","W","X","Y","Z">>

DigitChars == <<"0","1","2","3","4","5","6","7","8","9">>

Range(s) == {s[i] : i \in DOMAIN s}

LowerSet == Range(LowerChars)

UpperSet == Range(UpperChars)

DigitSet == Range(DigitChars)

is_lowercase(c) == c \in LowerSet

is_uppercase(c) == c \in UpperSet

is_numeric(c) == c \in DigitSet

is_alphabetic(c) == c \in LowerSet \/ c \in UpperSet

is_alphanumeric(c) == is_alphabetic(c) \/ is_numeric(c)

IndexIn(s, c) == CHOOSE i \in DOMAIN s : s[i] = c

to_ascii_uppercase(c) == IF c \in LowerSet THEN UpperChars[IndexIn(LowerChars, c)] ELSE c

to_ascii_lowercase(c) == IF c \in UpperSet THEN LowerChars[IndexIn(UpperChars, c)] ELSE c

\* The first position of c in s, 0 when c does not occur.
FirstIndex(s, c) ==
    IF \E i \in DOMAIN s : s[i] = c
    THEN CHOOSE i \in DOMAIN s : s[i] = c /\ \A j \in 1..(i - 1) : s[j] # c
    ELSE 0

\* The last position of c in s, 0 when c does not occur.
LastIndex(s, c) ==
    IF \E i \in DOMAIN s : s[i] = c
    THEN CHOOSE i \in DOMAIN s : s[i] = c /\ \A j \in (i + 1)..Len(s) : s[j] # c
    ELSE 0

starts_with(s, p) == Len(p) <= Len(s) /\ SubSeq(s, 1, Len(p)) = p

\* str::strip_prefix(c).unwrap_or(s)
strip_prefix(s, c) == IF s # <<>> /\ s[1] = c THEN Tail(s) ELSE s

\* s.split('/').last()
last_component(s) == SubSeq(s, LastIndex(s, "/") + 1, Len(s))

RECURSIVE split(_, _)
\* s.split(c), collected
split(s, c) ==
    LET i == FirstIndex(s, c)
    IN  IF i = 0 THEN <<s>> ELSE <<SubSeq(s, 1, i - 1)>> \o split(SubSeq(s, i + 1, Len(s)), c)

RECURSIVE int_to_string(_)
\* format!("{}", n) of an unsigned integer
int_to_string(n) ==
    IF n < 10 THEN <<DigitChars[n + 1]>>
    ELSE int_to_string(n \div 10) \o <<DigitChars[(n % 10) + 1]>>

(***************************************************************************)
(* Inflector::to_pascal_case: to_case_camel_like with new_word = true,     *)
(* last_char = ' ', no separator injected, first word capitalised.         *)
(***************************************************************************)
RECURSIVE trim_right(_)
trim_right(s) ==
    IF s # <<>> /\ ~is_alphanumeric(s[Len(s)]) THEN trim_right(SubSeq(s, 1, Len(s) - 1)) ELSE s

\* The body of the loop over the characters, on the loop's variables.
camel_step(st, character) ==
    IF ~is_alphanumeric(character) /\ st.found_real_char
    THEN [st EXCEPT !.new_word = TRUE]
    ELSE IF ~st.found_real_char /\ ~is_alphanumeric(character)
    THEN st
    ELSE IF is_numeric(character)
    THEN [st EXCEPT !.new_word = TRUE, !.found_real_char = TRUE,
                    !.result = Append(@, character)]
    ELSE IF st.new_word \/ (is_lowercase(st.last_char) /\ is_uppercase(character)
                                                       /\ st.last_char # " ")
    THEN [st EXCEPT !.new_word = FALSE, !.found_real_char = TRUE,
                    !.result = Append(@, to_ascii_uppercase(character))]
    ELSE [st EXCEPT !.last_char = character, !.found_real_char = TRUE,
                    !.result = Append(@, to_ascii_lowercase(character))]

RECURSIVE camel_loop(_, _, _, _)
\* The loop over the characters lo..hi in order, by halves: the state
\* after the first half is computed, then the second half runs from it.
camel_loop(s, lo, hi, st) ==
    IF lo > hi THEN st
    ELSE IF lo = hi THEN camel_step(st, s[lo])
    ELSE LET mid == (lo + hi) \div 2
             left == camel_loop(s, lo, mid, st)
         IN  IF Len(left.result) >= 0 THEN camel_loop(s, mid + 1, hi, left) ELSE left

to_case_camel_like(s) ==
    camel_loop(s, 1, Len(s),
               [new_word |-> TRUE, last_char |-> " ", found_real_char |-> FALSE,
                result |-> <<>>]).result

to_pascal_case(s) == to_case_camel_like(trim_right(s))

(***************************************************************************)
(* The identifier sanitiser.                                               *)
(***************************************************************************)
replace_invalid_identifier_chars(s) ==
    LET t == strip_prefix(s, "$")
    IN  [i \in 1..Len(t) |-> IF ~is_alphanumeric(t[i]) /\ t[i] # "_" THEN "_" ELSE t[i]]

replace_numeric_start(s) ==
    IF s # <<>> /\ is_numeric(s[1]) THEN <<"_">> \o s ELSE s

RECURSIVE remove_excess_underscores(_)
remove_excess_underscores(s) ==
    IF s = <<>> THEN <<>>
    ELSE IF s[1] # "_" \/ ~(Len(s) >= 2 /\ s[2] = "_")
         THEN <<s[1]>> \o remove_excess_underscores(Tail(s))
         ELSE remove_excess_underscores(Tail(s))

keywords ==
  { <<"a","s">>, <<"b","r","e","a","k">>, <<"c","o","n","s","t">>,
    <<"c","o","n","t","i","n","u","e">>, <<"c","r","a","t","e">>, <<"e","l","s","e">>,
    <<"e","n","u","m">>, <<"e","x","t","e","r","n">>, <<"f","a","l","s","e">>, <<"f","n">>,
    <<"f","o","r">>, <<"i","f">>, <<"i","m","p","l">>, <<"i","n">>, <<"l","e","t">>,
    <<"l","o","o","p">>, <<"m","a","t","c","h">>, <<"m","o","d">>, <<"m","o","v","e">>,
    <<"m","u","t">>, <<"p","u","b">>, <<"r","e","f">>, <<"r","e","t","u","r","n">>,
    <<"s","e","l","f">>, <<"s","t","a","t","i","c">>, <<"s","t","r","u","c","t">>,
    <<"s","u","p","e","r">>, <<"t","r","a","i","t">>, <<"t","r","u","e">>, <<"t","y","p","e">>,
    <<"u","n","s","a","f","e">>, <<"u","s","e">>, <<"w","h","e","r","e">>,
    <<"w","h","i","l","e">>, <<"a","b","s","t","r","a","c","t">>, <<"b","e","c","o","m","e">>,
    <<"b","o","x">>, <<"d","o">>, <<"f","i","n","a","l">>, <<"m","a","c","r","o">>,
    <<"o","v","e","r","r","i","d","e">>, <<"p","r","i","v">>, <<"t","y","p","e","o","f">>,
    <<"u","n","s","i","z","e","d">>, <<"v","i","r","t","u","a","l">>, <<"y","i","e","l","d">>,
    <<"a","s","y","n","c">>, <<"a","w","a","i","t">>, <<"t","r","y">> }

str_to_ident(s) ==
    IF s = <<>> THEN <<"e","m","p","t","y","_">>
    ELSE IF \A i \in DOMAIN s : s[i] = "_" THEN <<"u","n","d","e","r","s","c","o","r","e","_">>
    ELSE LET t == remove_excess_underscores(
                      replace_numeric_start(replace_invalid_identifier_chars(s)))
         IN  IF t = <<>> THEN <<"i","n","v","a","l","i","d","_">>
             ELSE IF t \in keywords THEN Append(t, "_")
             ELSE t

\* What syn::Ident::new and format_ident! accept: a non-empty word of
\* alphanumerics and '_' that does not start with a digit.
is_ident(s) ==
    /\ s # <<>>
    /\ ~is_numeric(s[1])
    /\ \A i \in DOMAIN s : is_alphanumeric(s[i]) \/ s[i] = "_"


(***************************************************************************)
(* String order (the key order of a BTreeMap<String, _>): lexicographic    *)
(* on the ASCII code of the characters.                                    *)
(***************************************************************************)
AsciiChars ==
    <<" ","!","#","$","%","&","'","(",")","*","+",",","-",".","/">> \o DigitChars \o
    <<":",";","<","=",">","?","@">> \o UpperChars \o <<"[","]","^","_">> \o LowerChars \o
    <<"{","|","}","~">>

char_code(c) == IndexIn(AsciiChars, c)

RECURSIVE string_less(_, _)
string_less(a, b) ==
    IF b = <<>> THEN FALSE
    ELSE IF a = <<>> THEN TRUE
    ELSE IF a[1] = b[1] THEN string_less(Tail(a), Tail(b))
    ELSE char_code(a[1]) < char_code(b[1])

(***************************************************************************)
(* Results of operations that may end the pass: a value, or the fatal      *)
(* condition raised (a panic, or the exhaustion of the call stack).        *)
(***************************************************************************)
Ok(v) == [ok |-> TRUE, val |-> v, err |-> "none"]

Err(e) == [ok |-> FALSE, val |-> <<>>, err |-> e]

(***************************************************************************)
(* The schema model (schema::Schema) and serde_json::Value.  An object     *)
(* Value holds in o what is read from it: for additionalProperties the     *)
(* Schema that serde_json::from_value gives, for default the members.      *)
(***************************************************************************)
Schema ==
    [ ref_ |-> <<>>, type_ |-> <<>>, properties |-> <<>>, required |-> <<>>, items |-> <<>>,
      all_of |-> <<>>, one_of |-> <<>>, any_of |-> <<>>, enum_ |-> <<>>, enum_names |-> <<>>,
      additional_properties |-> <<>>, pattern_properties |-> <<>>, default |-> <<>>,
      description |-> <<>>, id |-> <<>>, title |-> <<>>, definitions |-> <<>> ]

ValueNull == [kind |-> "null", b |-> FALSE, n |-> 0, s |-> <<>>, o |-> <<>>]

ValueBool(b) == [kind |-> "bool", b |-> b, n |-> 0, s |-> <<>>, o |-> <<>>]

ValueNumber(n) == [kind |-> "number", b |-> FALSE, n |-> n, s |-> <<>>, o |-> <<>>]

ValueString(s) == [kind |-> "string", b |-> FALSE, n |-> 0, s |-> s, o |-> <<>>]

ValueObject(o) == [kind |-> "object", b |-> FALSE, n |-> 0, s |-> <<>>, o |-> o]

\* BTreeMap::get
map_has(m, k) == \E i \in DOMAIN m : m[i].k = k

map_get(m, k) == m[CHOOSE i \in DOMAIN m : m[i].k = k].v

\* BTreeMap::insert of a key the map does not hold: the entry goes to its
\* place in key order.
map_insert(m, k, v) ==
    LET n == Cardinality({i \in DOMAIN m : string_less(m[i].k, k)})
    IN  SubSeq(m, 1, n) \o <<[k |-> k, v |-> v]>> \o SubSeq(m, n + 1, Len(m))

map_set(m, k, v) == [i \in DOMAIN m |-> IF m[i].k = k THEN [k |-> k, v |-> v] ELSE m[i]]

(***************************************************************************)
(* The composition merger.                                                 *)
(***************************************************************************)
\* (Mutation of merge_option.) A merge of optional lists that keeps the
\* first list.
merge_option_first(result, r) == IF result # <<>> THEN result ELSE r

merge_option(result, r) ==
    IF result # <<>> /\ r # <<>> THEN <<result[1] \o r[1]>>
    ELSE IF result = <<>> /\ r # <<>> THEN r
    ELSE result

RECURSIVE merge_all_of(_, _)
RECURSIVE merge_properties(_, _, _)
merge_properties(properties, r_properties, i) ==
    IF i > Len(r_properties) THEN properties
    ELSE LET k == r_properties[i].k
             v == r_properties[i].v
         IN  IF map_has(properties, k)
             THEN merge_properties(
                      map_set(properties, k, merge_all_of(map_get(properties, k), v)),
                      r_properties, i + 1)
             ELSE merge_properties(map_insert(properties, k, v), r_properties, i + 1)

merge_all_of(result, r) ==
    [result EXCEPT
        !.properties = merge_properties(result.properties, r.properties, 1),
        !.ref_ = IF r.ref_ # <<>> THEN r.ref_ ELSE result.ref_,
        !.description = IF r.description # <<>> THEN r.description ELSE result.description,
        !.required = merge_option(result.required, r.required),
        !.type_ = SelectSeq(result.type_, LAMBDA e : e \in Range(r.type_))]

(***************************************************************************)
(* The Expander (lib.rs 305-312): its configuration, its naming context    *)
(* and its registry, and the position of the pass: the call stack of the   *)
(* recursive traversal, the value the last call returned, how the pass     *)
(* stands and what expand returned.                                        *)
(***************************************************************************)
VARIABLES root_name, root, current_type, current_field, types,
          stack, ret, status, fatal, output

vars == <<root_name, root, current_type, current_field, types,
          stack, ret, status, fatal, output>>

\* The depth of nested Expander::schema calls the call stack holds; a
\* deeper recursion exhausts the stack and the process is aborted.
StackLimit == 6

(***************************************************************************)
(* The reference resolver.                                                 *)
(***************************************************************************)
s_definitions == <<"d","e","f","i","n","i","t","i","o","n","s">>

RECURSIVE schema_ref_fold(_, _, _)
schema_ref_fold(sch, comps, i) ==
    IF i > Len(comps) THEN Ok(sch)
    ELSE LET comp == comps[i] IN
         IF comp # <<>> /\ comp[Len(comp)] = "#" THEN schema_ref_fold(root, comps, i + 1)
         ELSE IF comp = s_definitions THEN schema_ref_fold(sch, comps, i + 1)
         ELSE IF map_has(sch.definitions, comp)
         THEN schema_ref_fold(map_get(sch.definitions, comp), comps, i + 1)
         ELSE Err("UnresolvedReference")

\* (Mutation of schema_ref.) A resolver that takes a reference it cannot
\* resolve for the empty schema.
schema_ref_lenient(s) ==
    IF schema_ref_fold(root, split(s, "/"), 1).ok THEN schema_ref_fold(root, split(s, "/"), 1)
    ELSE Ok(Schema)

schema_ref(s) == schema_ref_fold(root, split(s, "/"), 1)

RECURSIVE schema_at(_, _)
RECURSIVE schema_fold(_, _, _, _)
\* The fold of Expander::schema over all_of[1..], from the view of all_of[0].
schema_fold(result, all_of, i, depth) ==
    IF ~result.ok \/ i > Len(all_of) THEN result
    ELSE LET def == schema_at(all_of[i], depth)
         IN  IF ~def.ok THEN def
             ELSE schema_fold(Ok(merge_all_of(result.val, def.val)), all_of, i + 1, depth)

\* Expander::schema, entered with depth - 1 calls of it on the call stack.
schema_at(sch, depth) ==
    IF depth > StackLimit THEN Err("StackOverflow")
    ELSE LET target == IF sch.ref_ # <<>> THEN schema_ref(sch.ref_[1]) ELSE Ok(sch) IN
         IF ~target.ok THEN target
         ELSE IF target.val.all_of # <<>> /\ target.val.all_of[1] # <<>>
         THEN schema_fold(schema_at(target.val.all_of[1][1], depth + 1),
                          target.val.all_of[1], 2, depth + 1)
         ELSE target

effective_schema(sch) == schema_at(sch, 1)

\* uriparse: a URI is scheme ":" rest, with an optional "#" fragment; the
\* characters a fragment may hold.
is_fragment_char(c) ==
    \/ is_alphanumeric(c)
    \/ c \in {"-", ".", "_", "~", "!", "$", "&", "'", "(", ")", "*", "+", ",", ";", "=",
              ":", "@", "/", "?"}

\* URI::try_from(s).map(|uri| uri.fragment()).ok().flatten()
uri_fragment(s) ==
    LET colon == FirstIndex(s, ":")
        hash == FirstIndex(s, "#")
        rest == IF hash = 0 THEN SubSeq(s, colon + 1, Len(s)) ELSE SubSeq(s, colon + 1, hash - 1)
        frag == SubSeq(s, hash + 1, Len(s))
        is_uri == /\ colon > 1
                  /\ is_alphabetic(s[1])
                  /\ \A i \in 1..(colon - 1) : is_alphanumeric(s[i]) \/ s[i] \in {"+", "-", "."}
                  /\ \A i \in DOMAIN rest : is_fragment_char(rest[i])
                  /\ \A i \in DOMAIN frag : is_fragment_char(frag[i])
    IN  IF is_uri /\ hash # 0 THEN <<frag>> ELSE <<>>

\* Fragment::try_from(s).ok()
fragment_try_from(s) == IF \A i \in DOMAIN s : is_fragment_char(s[i]) THEN <<s>> ELSE <<>>

type_ref_fragment(s) ==
    LET parsed == IF uri_fragment(s) # <<>> THEN uri_fragment(s)
                  ELSE fragment_try_from(strip_prefix(s, "#"))
    IN  IF parsed # <<>> THEN parsed[1] ELSE s

\* (Mutation of type_ref.) A type_ref that takes the whole fragment for the
\* last segment.
type_ref_whole_fragment(s) ==
    LET fragment == type_ref_fragment(s) IN
    IF fragment = <<>> /\ root_name = <<>> THEN Err("MissingRootName")
    ELSE LET ref_ == IF fragment = <<>> THEN root_name[1] ELSE fragment
         IN  Ok(replace_numeric_start(replace_invalid_identifier_chars(to_pascal_case(ref_))))

type_ref(s) ==
    LET fragment == type_ref_fragment(s) IN
    IF fragment = <<>> /\ root_name = <<>> THEN Err("MissingRootName")
    ELSE LET ref_ == IF fragment = <<>> THEN root_name[1] ELSE last_component(fragment)
         IN  Ok(replace_numeric_start(replace_invalid_identifier_chars(to_pascal_case(ref_))))

(***************************************************************************)
(* Type expressions, field types (FieldType) and declarations (the         *)
(* TokenStream of a declaration, kept as what it declares).                *)
(***************************************************************************)
s_Value == <<"s","e","r","d","e","_","j","s","o","n",":",":","V","a","l","u","e">>

s_String == <<"S","t","r","i","n","g">>

s_i64 == <<"i","6","4">>

s_bool == <<"b","o","o","l">>

s_f64 == <<"f","6","4">>

s_Option == <<"O","p","t","i","o","n","<">>

s_Vec == <<"V","e","c","<">>

s_Box == <<"B","o","x","<">>

s_BTreeMap ==
    <<":",":","s","t","d",":",":","c","o","l","l","e","c","t","i","o","n","s",":",":",
      "B","T","r","e","e","M","a","p","<","S","t","r","i","n","g",","," ">>

s_Item == <<"I","t","e","m">>

s_Variant == <<"V","a","r","i","a","n","t">>

s_close == <<">">>

\* The attributes a field type carries (schemafy_path is "::schemafy_core::").
attr_skip_serializing == "skip_serializing_if=\"Option::is_none\""

attr_one_or_many == "with=\"::schemafy_core::one_or_many\""

\* impl From<S> for FieldType
FieldType(typ) == [typ |-> typ, attributes |-> <<>>, default |-> FALSE]

Tokens ==
    [ kind |-> "empty", name |-> <<>>, rename |-> <<>>, derive_default |-> FALSE,
      deny_unknown_fields |-> FALSE, fields |-> <<>>, variants |-> <<>>, optional |-> FALSE,
      repr_i64 |-> FALSE, target |-> <<>>, doc |-> <<>> ]

\* quote! { #t #type_decl } with t the doc comment of the description
with_doc(description, type_decl) ==
    IF description # <<>> THEN [type_decl EXCEPT !.doc = description] ELSE type_decl

\* (Mutation of types_push.) A registry that puts a new entry first.
types_push_front(registry, name, tokens) == <<[name |-> name, decl |-> tokens]>> \o registry

\* (Mutation of types_push.) A registry that puts a new entry before its
\* last entry.
types_push_before_last(registry, name, tokens) ==
    IF registry = <<>> THEN <<[name |-> name, decl |-> tokens]>>
    ELSE SubSeq(registry, 1, Len(registry) - 1)
             \o <<[name |-> name, decl |-> tokens], registry[Len(registry)]>>

\* self.types.push((name, tokens))
types_push(registry, name, tokens) == Append(registry, [name |-> name, decl |-> tokens])

(***************************************************************************)
(* The call stack: one frame per call in progress of a method of the       *)
(* Expander, with the method's arguments and locals and the place it has   *)
(* reached.  called_type and called_field record the naming context at the *)
(* moment of the call (a history of the call, not a local of the method).  *)
(***************************************************************************)
Frame(fn, pc, name, node) ==
    [ fn |-> fn, pc |-> pc, name |-> name, node |-> node, schemas |-> <<>>, i |-> 1,
      eff |-> Schema, fields |-> <<>>, default |-> TRUE, required |-> FALSE,
      saved_type |-> <<>>, called_type |-> current_type, called_field |-> current_field ]

Top == stack[Len(stack)]

At(fn, pc) == status = "running" /\ stack # <<>> /\ Top.fn = fn /\ Top.pc = pc

\* The caller moves on to pc (with its frame as given) and calls callee.
Call(caller, callee) == [stack EXCEPT ![Len(stack)] = caller] \o <<callee>>

Goto(frame) == [stack EXCEPT ![Len(stack)] = frame]

Popped == SubSeq(stack, 1, Len(stack) - 1)

\* A panic, or the exhaustion of the call stack: the pass ends there.
Abort(e) ==
    /\ status' = IF e = "StackOverflow" THEN "overflow" ELSE "panicked"
    /\ fatal' = e
    /\ UNCHANGED <<root_name, root, current_type, current_field, types, stack, ret, output>>

(***************************************************************************)
(* Expander::expand, on the root (expand_root).                            *)
(***************************************************************************)
Expand ==
    /\ status = "new"
    /\ IF root.title = <<>>
       THEN /\ status' = "panicked"
            /\ fatal' = "NoTitle"
            /\ UNCHANGED stack
       ELSE /\ status' = "running"
            /\ fatal' = fatal
            /\ stack' = << Frame("expand", "push", root.title[1], root),
                           Frame("expand_schema", "definitions", root.title[1], root) >>
    /\ UNCHANGED <<root_name, root, current_type, current_field, types, ret, output>>

ExpandPush ==
    /\ At("expand", "push")
    /\ types' = types_push(types, Top.name, with_doc(Top.node.description, ret))
    /\ output' = [k \in DOMAIN types' |-> types'[k].decl]
    /\ status' = "done"
    /\ stack' = Popped
    /\ UNCHANGED <<root_name, root, current_type, current_field, ret, fatal>>

(***************************************************************************)
(* Expander::expand_definitions                                            *)
(***************************************************************************)
ExpandDefinitionsNext ==
    /\ At("expand_definitions", "next")
    /\ IF Top.i > Len(Top.node.definitions)
       THEN /\ stack' = Popped
            /\ ret' = <<>>
       ELSE /\ stack' = Call([Top EXCEPT !.pc = "push"],
                             Frame("expand_schema", "definitions",
                                   Top.node.definitions[Top.i].k, Top.node.definitions[Top.i].v))
            /\ ret' = ret
    /\ UNCHANGED <<root_name, root, current_type, current_field, types, status, fatal, output>>

ExpandDefinitionsPush ==
    /\ At("expand_definitions", "push")
    /\ LET def == Top.node.definitions[Top.i]
       IN  types' = types_push(types, def.k, with_doc(def.v.description, ret))
    /\ stack' = Goto([Top EXCEPT !.pc = "next", !.i = @ + 1])
    /\ UNCHANGED <<root_name, root, current_type, current_field, ret, status, fatal, output>>

(***************************************************************************)
(* FieldExpander::expand_fields                                            *)
(***************************************************************************)
ExpandFieldsStart ==
    /\ At("expand_fields", "start")
    /\ LET eff == effective_schema(Top.node)
       IN  IF ~eff.ok THEN Abort(eff.err)
           ELSE /\ stack' = Goto([Top EXCEPT !.pc = "next", !.eff = eff.val, !.i = 1])
                /\ UNCHANGED <<root_name, root, current_type, current_field, types, ret,
                               status, fatal, output>>

is_required(sch, field_name) ==
    sch.required # <<>> /\ \E j \in DOMAIN sch.required[1] : sch.required[1][j] = field_name

ExpandFieldsNext ==
    /\ At("expand_fields", "next")
    /\ IF Top.i > Len(Top.eff.properties)
       THEN /\ stack' = Popped
            /\ ret' = [fields |-> Top.fields, default |-> Top.default]
            /\ current_field' = current_field
       ELSE LET field_name == Top.eff.properties[Top.i].k
                value == Top.eff.properties[Top.i].v
                callee == [Frame("expand_type", "call", Top.name, value)
                              EXCEPT !.required = is_required(Top.eff, field_name),
                                     !.called_field = field_name]
            IN  /\ current_field' = field_name
                /\ stack' = Call([Top EXCEPT !.pc = "field"], callee)
                /\ ret' = ret
    /\ UNCHANGED <<root_name, root, current_type, types, status, fatal, output>>

ExpandFieldsField ==
    /\ At("expand_fields", "field")
    /\ LET field_name == Top.eff.properties[Top.i].k
           value == Top.eff.properties[Top.i].v
           field_type == ret
           tokens == [ name |-> field_name, typ |-> field_type.typ,
                       default |-> field_type.default, attributes |-> field_type.attributes,
                       comment |-> value.description ]
       IN  stack' = Goto([Top EXCEPT !.pc = "next", !.i = @ + 1,
                                     !.default = @ /\ starts_with(field_type.typ, s_Option),
                                     !.fields = Append(@, tokens)])
    /\ UNCHANGED <<root_name, root, current_type, current_field, types, ret, status, fatal,
                   output>>

(***************************************************************************)
(* Expander::expand_type                                                   *)
(***************************************************************************)
ExpandTypeCall ==
    /\ At("expand_type", "call")
    /\ stack' = Call([Top EXCEPT !.pc = "ret", !.saved_type = current_type],
                     Frame("expand_type_", "start", <<>>, Top.node))
    /\ UNCHANGED <<root_name, root, current_type, current_field, types, ret, status, fatal,
                   output>>

\* (Mutation of wrap_field_type.) A post-processing that wraps every field
\* that is not required, implicitly defaultable or not.
wrap_field_type_every_optional(type_name, required, result) ==
    LET boxed == IF to_pascal_case(type_name) = to_pascal_case(result.typ)
                 THEN s_Box \o result.typ \o s_close ELSE result.typ
        typ == IF ~required THEN s_Option \o boxed \o s_close ELSE boxed
    IN  [result EXCEPT
            !.typ = typ,
            !.attributes = IF ~required /\ starts_with(typ, s_Option)
                           THEN Append(@, attr_skip_serializing) ELSE @]

\* Lines 404-415: the Box of a self-reference, the Option of a field that
\* is not required, and its skip attribute.
wrap_field_type(type_name, required, result) ==
    LET boxed == IF to_pascal_case(type_name) = to_pascal_case(result.typ)
                 THEN s_Box \o result.typ \o s_close ELSE result.typ
        typ == IF ~required /\ ~result.default THEN s_Option \o boxed \o s_close ELSE boxed
    IN  [result EXCEPT
            !.typ = typ,
            !.attributes = IF ~required /\ starts_with(typ, s_Option)
                           THEN Append(@, attr_skip_serializing) ELSE @]

ExpandTypeRet ==
    /\ At("expand_type", "ret")
    /\ current_type' = Top.saved_type
    /\ ret' = wrap_field_type(Top.name, Top.required, ret)
    /\ stack' = Popped
    /\ UNCHANGED <<root_name, root, current_field, types, status, fatal, output>>

(***************************************************************************)
(* Expander::expand_type_: the arm its if/else chain takes, then one       *)
(* action per arm and per place a call of an arm returns to.               *)
(***************************************************************************)
type_arm(typ) ==
    IF typ.ref_ # <<>> THEN "ref"
    ELSE IF typ.any_of # <<>> /\ Len(typ.any_of[1]) >= 2 THEN "any_of"
    ELSE IF typ.one_of # <<>> /\ Len(typ.one_of[1]) >= 2 THEN "one_of"
    ELSE IF Len(typ.type_) = 2 THEN "pair"
    ELSE IF Len(typ.type_) = 1 THEN
        IF typ.type_[1] = "object" THEN
            IF typ.properties # <<>> \/ typ.additional_properties = <<ValueBool(FALSE)>>
            THEN "inline" ELSE "map"
        ELSE IF typ.type_[1] = "array" THEN "array"
        ELSE "primitive"
    ELSE "other"

ExpandTypeRef ==
    /\ At("expand_type_", "start")
    /\ type_arm(Top.node) = "ref"
    /\ LET name == type_ref(Top.node.ref_[1])
       IN  IF ~name.ok THEN Abort(name.err)
           ELSE /\ ret' = FieldType(name.val)
                /\ stack' = Popped
                /\ UNCHANGED <<root_name, root, current_type, current_field, types, status,
                               fatal, output>>

\* Lines 422-439: whether the anyOf is the one-or-many shape.
any_of_shape(any_of) ==
    LET simple == effective_schema(any_of[1])
        array == effective_schema(any_of[2])
    IN  IF ~simple.ok THEN simple
        ELSE IF ~array.ok THEN array
        ELSE IF array.val.type_ # <<>> /\ array.val.type_[1] = "array"
        THEN IF array.val.items = <<>> THEN Err("IndexOutOfBounds")
             ELSE LET item == effective_schema(array.val.items[1])
                  IN  IF ~item.ok THEN item
                      ELSE IF simple.val = item.val THEN Ok("one_or_many") ELSE Ok("value")
        ELSE Ok("value")

ExpandTypeAnyOf ==
    /\ At("expand_type_", "start")
    /\ type_arm(Top.node) = "any_of"
    /\ LET shape == any_of_shape(Top.node.any_of[1])
       IN  IF ~shape.ok THEN Abort(shape.err)
           ELSE /\ IF shape.val = "one_or_many"
                   THEN /\ stack' = Call([Top EXCEPT !.pc = "one_or_many"],
                                         Frame("expand_type_", "start", <<>>,
                                               Top.node.any_of[1][1]))
                        /\ ret' = ret
                   ELSE /\ stack' = Popped
                        /\ ret' = FieldType(s_Value)
                /\ UNCHANGED <<root_name, root, current_type, current_field, types, status,
                               fatal, output>>

ExpandTypeOneOrMany ==
    /\ At("expand_type_", "one_or_many")
    /\ ret' = [typ |-> s_Vec \o ret.typ \o s_close, attributes |-> <<attr_one_or_many>>,
               default |-> TRUE]
    /\ stack' = Popped
    /\ UNCHANGED <<root_name, root, current_type, current_field, types, status, fatal, output>>

ExpandTypeOneOf ==
    /\ At("expand_type_", "start")
    /\ type_arm(Top.node) = "one_of"
    /\ stack' = Call([Top EXCEPT !.pc = "one_of"],
                     [Frame("expand_one_of", "start", <<>>, Top.node)
                         EXCEPT !.schemas = Top.node.one_of[1]])
    /\ UNCHANGED <<root_name, root, current_type, current_field, types, ret, status, fatal,
                   output>>

ExpandTypeOneOfRet ==
    /\ At("expand_type_", "one_of")
    /\ types' = types_push(types, ret.name, ret.decl)
    /\ ret' = FieldType(ret.name)
    /\ stack' = Popped
    /\ UNCHANGED <<root_name, root, current_type, current_field, status, fatal, output>>

ExpandTypePair ==
    /\ At("expand_type_", "start")
    /\ type_arm(Top.node) = "pair"
    /\ IF Top.node.type_[1] = "null" \/ Top.node.type_[2] = "null"
       THEN LET ty == [Top.node EXCEPT !.type_ = SelectSeq(@, LAMBDA x : x # "null")]
            IN  /\ stack' = Call([Top EXCEPT !.pc = "nullable"],
                                 Frame("expand_type_", "start", <<>>, ty))
                /\ ret' = ret
       ELSE /\ stack' = Popped
            /\ ret' = FieldType(s_Value)
    /\ UNCHANGED <<root_name, root, current_type, current_field, types, status, fatal, output>>

ExpandTypeNullable ==
    /\ At("expand_type_", "nullable")
    /\ ret' = [typ |-> s_Option \o ret.typ \o s_close, attributes |-> <<>>, default |-> TRUE]
    /\ stack' = Popped
    /\ UNCHANGED <<root_name, root, current_type, current_field, types, status, fatal, output>>

\* Lines 459-469 and 506: the single declared types that name a type.
primitive_type(typ) ==
    IF typ.type_[1] = "string"
    THEN IF typ.enum_ # <<>> /\ typ.enum_[1] = <<>> THEN s_Value ELSE s_String
    ELSE IF typ.type_[1] = "integer" THEN s_i64
    ELSE IF typ.type_[1] = "boolean" THEN s_bool
    ELSE IF typ.type_[1] = "number" THEN s_f64
    ELSE s_Value

ExpandTypePrimitive ==
    /\ At("expand_type_", "start")
    /\ type_arm(Top.node) \in {"primitive", "other"}
    /\ ret' = FieldType(IF type_arm(Top.node) = "other" THEN s_Value
                        ELSE primitive_type(Top.node))
    /\ stack' = Popped
    /\ UNCHANGED <<root_name, root, current_type, current_field, types, status, fatal, output>>

\* Lines 475-479: the name of an object defined inline.
inline_name(type_context, field_context) ==
    to_pascal_case(type_context) \o to_pascal_case(field_context)

ExpandTypeInline ==
    /\ At("expand_type_", "start")
    /\ type_arm(Top.node) = "inline"
    /\ LET name == inline_name(current_type, current_field)
       IN  stack' = Call([Top EXCEPT !.pc = "inline", !.name = name],
                         Frame("expand_schema", "definitions", name, Top.node))
    /\ UNCHANGED <<root_name, root, current_type, current_field, types, ret, status, fatal,
                   output>>

ExpandTypeInlineRet ==
    /\ At("expand_type_", "inline")
    /\ types' = types_push(types, Top.name, ret)
    /\ ret' = FieldType(Top.name)
    /\ stack' = Popped
    /\ UNCHANGED <<root_name, root, current_type, current_field, status, fatal, output>>

\* Line 496: typ.default == Some(Value::Object(Default::default()))
default_is_empty_object(typ) ==
    typ.default # <<>> /\ typ.default[1].kind = "object" /\ typ.default[1].o = <<>>

map_type(typ, prop) ==
    [typ |-> s_BTreeMap \o prop \o s_close, attributes |-> <<>>,
     default |-> default_is_empty_object(typ)]

ExpandTypeMap ==
    /\ At("expand_type_", "start")
    /\ type_arm(Top.node) = "map"
    /\ IF Top.node.additional_properties # <<>>
          /\ Top.node.additional_properties[1].kind = "object"
       THEN /\ stack' = Call([Top EXCEPT !.pc = "map"],
                             Frame("expand_type_", "start", <<>>,
                                   Top.node.additional_properties[1].o))
            /\ ret' = ret
       ELSE /\ stack' = Popped
            /\ ret' = map_type(Top.node, s_Value)
    /\ UNCHANGED <<root_name, root, current_type, current_field, types, status, fatal, output>>

ExpandTypeMapRet ==
    /\ At("expand_type_", "map")
    /\ ret' = map_type(Top.node, ret.typ)
    /\ stack' = Popped
    /\ UNCHANGED <<root_name, root, current_type, current_field, types, status, fatal, output>>

\* (Mutation of item_context.) Elements named in the context of the array
\* itself.
item_context_unchanged(type_context) == type_context

\* Line 501: the naming context of the elements of an array.
item_context(type_context) == type_context \o s_Item

ExpandTypeArray ==
    /\ At("expand_type_", "start")
    /\ type_arm(Top.node) = "array"
    /\ IF Top.node.items = <<>>
       THEN /\ stack' = Popped
            /\ ret' = FieldType(s_Vec \o s_Value \o s_close)
            /\ current_type' = current_type
       ELSE /\ current_type' = item_context(current_type)
            /\ stack' = Call([Top EXCEPT !.pc = "array"],
                             [Frame("expand_type_", "start", <<>>, Top.node.items[1])
                                 EXCEPT !.called_type = item_context(current_type)])
            /\ ret' = ret
    /\ UNCHANGED <<root_name, root, current_field, types, status, fatal, output>>

ExpandTypeArrayRet ==
    /\ At("expand_type_", "array")
    /\ ret' = FieldType(s_Vec \o ret.typ \o s_close)
    /\ stack' = Popped
    /\ UNCHANGED <<root_name, root, current_type, current_field, types, status, fatal, output>>

(***************************************************************************)
(* Expander::expand_one_of                                                 *)
(***************************************************************************)
\* Lines 514-519: the name of the union, from the naming context.
one_of_name(type_context, field_context) ==
    type_context \o (IF field_context = <<>> THEN <<>>
                     ELSE to_pascal_case(str_to_ident(field_context)))

ExpandOneOfStart ==
    /\ At("expand_one_of", "start")
    /\ LET saved_type == one_of_name(current_type, current_field)
       IN  IF Top.schemas = <<>>
           THEN /\ stack' = Popped
                /\ ret' = [name |-> saved_type, decl |-> Tokens]
           ELSE /\ stack' = Goto([Top EXCEPT !.pc = "next", !.saved_type = saved_type, !.i = 1])
                /\ ret' = ret
    /\ UNCHANGED <<root_name, root, current_type, current_field, types, status, fatal, output>>

\* Line 527: the name of the variant of branch i (counted from 1 here).
\* (Mutation of variant_name.) A variant named by its position counted from
\* 1.
variant_name_from_one(sch, i) == IF sch.id # <<>> THEN sch.id[1] ELSE s_Variant \o int_to_string(i)

variant_name(sch, i) == IF sch.id # <<>> THEN sch.id[1] ELSE s_Variant \o int_to_string(i - 1)

\* Lines 539-546
one_of_tokens(saved_type, variants) ==
    [Tokens EXCEPT !.kind = "union", !.name = saved_type, !.variants = variants]

ExpandOneOfNext ==
    /\ At("expand_one_of", "next")
    /\ IF Top.i > Len(Top.schemas)
       THEN IF ~is_ident(Top.saved_type) THEN Abort("InvalidIdentifier")
            ELSE /\ stack' = Popped
                 /\ ret' = [name |-> Top.saved_type,
                            decl |-> one_of_tokens(Top.saved_type, Top.fields)]
                 /\ UNCHANGED <<root_name, root, current_type, current_field, types, status,
                                fatal, output>>
       ELSE LET sch == Top.schemas[Top.i]
                name == variant_name(sch, Top.i)
            IN  IF sch.ref_ # <<>>
                THEN LET type_ == type_ref(sch.ref_[1])
                     IN  IF ~type_.ok THEN Abort(type_.err)
                         ELSE IF ~is_ident(name) \/ ~is_ident(type_.val)
                         THEN Abort("InvalidIdentifier")
                         ELSE /\ stack' = Goto([Top EXCEPT
                                     !.i = @ + 1,
                                     !.fields = Append(@, [name |-> name, typ |-> type_.val])])
                              /\ UNCHANGED <<root_name, root, current_type, current_field,
                                             types, ret, status, fatal, output>>
                ELSE /\ stack' = Call([Top EXCEPT !.pc = "variant"],
                                      Frame("expand_schema", "definitions",
                                            Top.saved_type \o name, sch))
                     /\ UNCHANGED <<root_name, root, current_type, current_field, types, ret,
                                    status, fatal, output>>

ExpandOneOfVariant ==
    /\ At("expand_one_of", "variant")
    /\ LET name == variant_name(Top.schemas[Top.i], Top.i)
           type_name == Top.saved_type \o name
       IN  IF ~is_ident(name) \/ ~is_ident(type_name) THEN Abort("InvalidIdentifier")
           ELSE /\ types' = types_push(types, type_name, ret)
                /\ stack' = Goto([Top EXCEPT
                       !.pc = "next", !.i = @ + 1,
                       !.fields = Append(@, [name |-> name, typ |-> type_name])])
                /\ UNCHANGED <<root_name, root, current_type, current_field, ret, status,
                               fatal, output>>

(***************************************************************************)
(* Expander::expand_schema                                                 *)
(***************************************************************************)
ExpandSchemaDefinitions ==
    /\ At("expand_schema", "definitions")
    /\ stack' = Call([Top EXCEPT !.pc = "fields"],
                     Frame("expand_definitions", "next", <<>>, Top.node))
    /\ UNCHANGED <<root_name, root, current_type, current_field, types, ret, status, fatal,
                   output>>

\* Line 570
pascal_case_name(original_name) ==
    replace_invalid_identifier_chars(to_pascal_case(original_name))

ExpandSchemaFields ==
    /\ At("expand_schema", "fields")
    /\ current_type' = pascal_case_name(Top.name)
    /\ stack' = Call([Top EXCEPT !.pc = "decide"],
                     [Frame("expand_fields", "start", Top.name, Top.node)
                         EXCEPT !.called_type = pascal_case_name(Top.name)])
    /\ UNCHANGED <<root_name, root, current_field, types, ret, status, fatal, output>>

\* Lines 578-579 and 587: the kind of declaration.
declaration_kind(fields, sch) ==
    IF fields # <<>> \/ sch.additional_properties = <<ValueBool(FALSE)>> THEN "struct"
    ELSE IF sch.enum_ # <<>> /\ sch.enum_[1] # <<>> THEN "enum"
    ELSE "alias"

\* Lines 580-586
serde_rename(name, original_name) == IF name = original_name THEN <<>> ELSE <<original_name>>

\* Lines 588-614
struct_tokens(name, original_name, sch, fields, default) ==
    [Tokens EXCEPT
        !.kind = "struct", !.name = name, !.rename = serde_rename(name, original_name),
        !.deny_unknown_fields = (sch.additional_properties = <<ValueBool(FALSE)>>
                                 /\ sch.pattern_properties = <<>>),
        !.derive_default = default, !.fields = fields]

\* rename_keyword("", pascal) or the identifier itself, for a variant.
variant_tokens(wire, pascal_case_variant, renamed, value) ==
    [ name |-> str_to_ident(pascal_case_variant),
      rename |-> (IF renamed THEN <<wire>> ELSE <<>>) \o
                 (IF str_to_ident(pascal_case_variant) # pascal_case_variant
                  THEN <<pascal_case_variant>> ELSE <<>>),
      value |-> value ]

RECURSIVE paired_variants(_, _, _)
\* Lines 628-658
paired_variants(values, names, idx) ==
    IF idx > Len(names) THEN <<>>
    ELSE LET value == values[idx]
             rest == paired_variants(values, names, idx + 1)
         IN  IF value.kind = "string"
             THEN <<variant_tokens(value.s, to_pascal_case(names[idx]), TRUE, <<>>)>> \o rest
             ELSE IF value.kind = "number"
             THEN <<variant_tokens(<<>>, to_pascal_case(names[idx]), FALSE, <<value.n>>)>>
                  \o rest
             ELSE rest

RECURSIVE plain_variants(_, _)
\* Lines 660-689
plain_variants(values, idx) ==
    IF idx > Len(values) THEN <<>>
    ELSE LET value == values[idx]
             rest == plain_variants(values, idx + 1)
         IN  IF value.kind = "string"
             THEN <<variant_tokens(value.s, to_pascal_case(value.s),
                                   to_pascal_case(value.s) # value.s, <<>>)>> \o rest
             ELSE rest

\* (Mutation of enum_tokens.) An enum declaration that only refuses more
\* names than values.
enum_tokens_more_names(name, original_name, sch) ==
    LET values == IF sch.enum_ # <<>> THEN sch.enum_[1] ELSE <<>>
        names == IF sch.enum_names # <<>> THEN sch.enum_names[1] ELSE <<>>
        decl == [Tokens EXCEPT !.kind = "enum", !.name = name,
                               !.rename = serde_rename(name, original_name)]
    IN  IF names # <<>>
        THEN IF Len(names) > Len(values) THEN Err("EnumNamesLengthMismatch")
             ELSE Ok([decl EXCEPT !.variants = paired_variants(values, names, 1)])
        ELSE Ok([decl EXCEPT !.variants = plain_variants(values, 1)])

\* Lines 615-730: the enum declaration, or the panic of its construction.
enum_tokens(name, original_name, sch) ==
    LET values == IF sch.enum_ # <<>> THEN sch.enum_[1] ELSE <<>>
        names == IF sch.enum_names # <<>> THEN sch.enum_names[1] ELSE <<>>
        paired == sch.enum_names # <<>> /\ sch.enum_names[1] # <<>>
        optional == \E k \in DOMAIN values : values[k].kind = "null"
        decl == [Tokens EXCEPT !.kind = "enum", !.name = name, !.optional = optional,
                               !.rename = serde_rename(name, original_name)]
    IN  IF paired
        THEN IF Len(names) # Len(values) THEN Err("EnumNamesLengthMismatch")
             ELSE IF \E k \in DOMAIN values : values[k].kind \notin {"string", "number", "null"}
             THEN Err("InvalidEnumValue")
             ELSE Ok([decl EXCEPT
                        !.variants = paired_variants(values, names, 1),
                        !.repr_i64 = \E k \in DOMAIN values : values[k].kind = "number"])
        ELSE IF \E k \in DOMAIN values : values[k].kind \notin {"string", "null"}
             THEN Err("InvalidEnumValue")
             ELSE Ok([decl EXCEPT !.variants = plain_variants(values, 1)])

ExpandSchemaDecide ==
    /\ At("expand_schema", "decide")
    /\ LET name == pascal_case_name(Top.name)
           kind == declaration_kind(ret.fields, Top.node)
           enum == enum_tokens(name, Top.name, Top.node)
       IN  IF ~is_ident(name) THEN Abort("InvalidIdentifier")
           ELSE IF kind = "enum" /\ ~enum.ok THEN Abort(enum.err)
           ELSE /\ IF kind = "alias"
                   THEN /\ stack' = Call([Top EXCEPT !.pc = "alias"],
                                         [Frame("expand_type", "call", <<>>, Top.node)
                                             EXCEPT !.required = TRUE])
                        /\ ret' = ret
                   ELSE /\ stack' = Popped
                        /\ ret' = IF kind = "struct"
                                  THEN struct_tokens(name, Top.name, Top.node, ret.fields,
                                                     ret.default)
                                  ELSE enum.val
                /\ UNCHANGED <<root_name, root, current_type, current_field, types, status,
                               fatal, output>>

\* Lines 732-739
alias_tokens(name, typ) ==
    IF name = typ THEN Tokens
    ELSE [Tokens EXCEPT !.kind = "alias", !.name = name, !.target = typ]

ExpandSchemaAlias ==
    /\ At("expand_schema", "alias")
    /\ ret' = alias_tokens(pascal_case_name(Top.name), ret.typ)
    /\ stack' = Popped
    /\ UNCHANGED <<root_name, root, current_type, current_field, types, status, fatal, output>>

(***************************************************************************)
(* Schema documents.  A document is written with the constructors below;   *)
(* MapOf puts the entries of a map in key order, as the BTreeMap the       *)
(* document is parsed into holds them.                                     *)
(***************************************************************************)
n_Root == <<"R","o","o","t">>

n_Pet == <<"P","e","t">>

n_Owner == <<"O","w","n","e","r">>

n_Cat == <<"C","a","t">>

n_Dog == <<"D","o","g">>

n_Ghost == <<"G","h","o","s","t">>

n_Kitty == <<"K","i","t","t","y">>

n_Base == <<"B","a","s","e">>

n_RootA == <<"R","o","o","t","A">>

n_A == <<"A">>

n_B == <<"B">>

n_E == <<"E">>

n_M == <<"M">>

n_a == <<"a">>

n_b == <<"b">>

n_c == <<"c">>

n_f == <<"f">>

n_k == <<"k">>

n_m == <<"m">>

n_p == <<"p">>

n_q == <<"q">>

n_t == <<"t">>

n_v == <<"v">>

n_x == <<"x">>

n_y == <<"y">>

n_z == <<"z">>

n_age == <<"a","g","e">>

n_name == <<"n","a","m","e">>

n_pet == <<"p","e","t">>

n_a_b == <<"a","_","b">>

n_aB == <<"a","B">>

n_first == <<"f","i","r","s","t">>

n_second == <<"s","e","c","o","n","d">>

n_red == <<"r","e","d">>

n_n1 == <<"n","1">>

n_n2 == <<"n","2">>

n_n3 == <<"n","3">>

n_n4 == <<"n","4">>

s_ref_definitions == <<"#","/","d","e","f","i","n","i","t","i","o","n","s","/">>

DefRef(name) == s_ref_definitions \o name

Entry(k, v) == [k |-> k, v |-> v]

RECURSIVE MapFrom(_, _)
MapFrom(entries, i) ==
    IF i = 0 THEN <<>> ELSE map_insert(MapFrom(entries, i - 1), entries[i].k, entries[i].v)

MapOf(entries) == MapFrom(entries, Len(entries))

Typed(type_) == [Schema EXCEPT !.type_ = type_]

Prim(t) == Typed(<<t>>)

Ref(r) == [Schema EXCEPT !.ref_ = <<r>>]

Object(entries) == [Schema EXCEPT !.type_ = <<"object">>, !.properties = MapOf(entries)]

ArrayOf(item) == [Schema EXCEPT !.type_ = <<"array">>, !.items = <<item>>]

AllOf(branches) == [Schema EXCEPT !.all_of = <<branches>>]

OneOf(branches) == [Schema EXCEPT !.one_of = <<branches>>]

AnyOf(branches) == [Schema EXCEPT !.any_of = <<branches>>]

Required(sch, req) == [sch EXCEPT !.required = <<req>>]

Described(sch, text) == [sch EXCEPT !.description = <<text>>]

Titled(sch, title) == [sch EXCEPT !.title = <<title>>]

WithDefinitions(sch, entries) == [sch EXCEPT !.definitions = MapOf(entries)]

Scenario(name, sch) == [root_name |-> name, root |-> sch]

\* The Pet document of the end-to-end scenario.
PetDocument ==
    Titled(Required(Object(<<Entry(n_name, Prim("string")),
                             Entry(n_age, Typed(<<"integer", "null">>))>>),
                    <<n_name>>),
           n_Pet)

Leaf == Object(<<Entry(n_z, Prim("string"))>>)

\* A document of the shape of tests/multiple-property-types.json: objects
\* nested under an array, under objects and under a map.
EmbeddedDocument ==
    Titled(Object(<<Entry(n_a, ArrayOf(Object(<<Entry(n_c, Leaf)>>))),
                    Entry(n_k, Object(<<Entry(n_m, Leaf)>>)),
                    Entry(n_t, Object(<<Entry(n_v, Leaf)>>))>>),
           n_Root)

\* The Owner documents: a field pet that is a oneOf of two branches, each a
\* $ref to a definition, a $ref with an id, or an object defined inline.
PetDefinitions ==
    <<Entry(n_Cat, Object(<<Entry(n_name, Prim("string"))>>)),
      Entry(n_Dog, Object(<<Entry(n_age, Prim("integer"))>>))>>

OneOfBranches ==
    { Ref(DefRef(n_Cat)), Ref(DefRef(n_Dog)),
      [Ref(DefRef(n_Cat)) EXCEPT !.id = <<n_Kitty>>], Leaf, Prim("string") }

OwnerDocument(first, second) ==
    Titled(WithDefinitions(Object(<<Entry(n_pet, OneOf(<<first, second>>))>>), PetDefinitions),
           n_Owner)

OwnerDocuments == {OwnerDocument(b1, b2) : b1 \in OneOfBranches, b2 \in OneOfBranches}

n_my_root == <<"m","y","_","r","o","o","t">>

n_l == <<"l">>

n_n == <<"n">>

n_r == <<"r">>

n_d == <<"d">>

n_s == <<"s">>

n_one == <<"o","n","e">>

n_two == <<"t","w","o">>

\* Objects nested under a chain of fields, beside a sibling field whose
\* contents vary: the object Root.a.b is Leaf.
SiblingSchemas ==
    { Prim("string"),
      Object(<<Entry(n_p, Prim("string"))>>),
      Object(<<Entry(n_q, Object(<<Entry(n_x, Prim("integer"))>>))>>),
      ArrayOf(Object(<<Entry(n_y, Prim("string"))>>)) }

NestedDocument(sibling) ==
    Titled(Object(<<Entry(n_a, Object(<<Entry(n_b, Leaf)>>)), Entry(n_s, sibling)>>), n_Root)

NestedDocuments == {NestedDocument(s) : s \in SiblingSchemas}

\* The object Leaf under the array of the second branch of a oneOf, beside
\* a first branch whose contents vary.
BranchDocument(sibling) ==
    Titled(Object(<<Entry(n_f, OneOf(<<sibling, ArrayOf(Leaf)>>))>>), n_Root)

BranchDocuments == {BranchDocument(s) : s \in SiblingSchemas}

\* The object Leaf under the array of definition B, beside a definition A
\* whose contents vary.
DefinitionDocument(sibling) ==
    Titled(WithDefinitions(Object(<<>>),
                           <<Entry(n_A, sibling), Entry(n_B, ArrayOf(Leaf))>>),
           n_Root)

DefinitionDocuments == {DefinitionDocument(s) : s \in SiblingSchemas}

\* Documents in which two declarations meet under one name.
CollisionDocuments ==
    { Titled(WithDefinitions(Object(<<Entry(n_a, Leaf)>>), <<Entry(n_RootA, Prim("string"))>>),
             n_Root),
      Titled(Object(<<Entry(n_a_b, Leaf), Entry(n_aB, Leaf)>>), n_Root),
      Titled(WithDefinitions(Object(<<Entry(n_x, Ref(DefRef(n_Pet)))>>),
                             <<Entry(n_Pet, Leaf)>>),
             n_Pet) }

\* A $ref to a definition that is there (Cat) or is not (Ghost), at each
\* place of a document a $ref may stand.
RefPlaces ==
    { "property", "definition", "all_of_definition", "all_of_root", "any_of", "one_of",
      "items", "all_of_property", "map" }

PlacedDocument(place, target) ==
    LET ref == Ref(DefRef(target))
        cat == <<Entry(n_Cat, Leaf)>>
        field(sch) == Titled(WithDefinitions(Object(<<Entry(n_x, sch)>>), cat), n_Root)
    IN  CASE place = "property" -> field(ref)
          [] place = "definition" ->
                Titled(WithDefinitions(Object(<<>>), cat \o <<Entry(n_A, ref)>>), n_Root)
          [] place = "all_of_definition" ->
                Titled(WithDefinitions(Object(<<>>),
                                       cat \o <<Entry(n_A, AllOf(<<Prim("object"), ref>>))>>),
                       n_Root)
          [] place = "all_of_root" -> Titled(WithDefinitions(AllOf(<<ref>>), cat), n_Root)
          [] place = "any_of" -> field(AnyOf(<<ref, ArrayOf(ref)>>))
          [] place = "one_of" -> field(OneOf(<<ref, Prim("string")>>))
          [] place = "items" -> field(ArrayOf(ref))
          [] place = "all_of_property" -> field(AllOf(<<ref>>))
          [] place = "map" ->
                field([Prim("object") EXCEPT !.additional_properties = <<ValueObject(ref)>>])

PlacedDocuments == {PlacedDocument(p, t) : p \in RefPlaces, t \in {n_Cat, n_Ghost}}

\* Definitions whose allOf entries refer to one another: in a cycle, or not.
CompositionDocuments ==
    { Titled(WithDefinitions(Object(<<>>), <<Entry(n_A, AllOf(<<Ref(DefRef(n_A))>>))>>),
             n_Root),
      Titled(WithDefinitions(Object(<<>>),
                             <<Entry(n_A, AllOf(<<Ref(DefRef(n_B))>>)),
                               Entry(n_B, AllOf(<<Leaf, Ref(DefRef(n_A))>>))>>),
             n_Root),
      Titled(WithDefinitions(Object(<<>>),
                             <<Entry(n_A, AllOf(<<Ref(DefRef(n_B)), Required(Schema, <<n_z>>)>>)),
                               Entry(n_B, AllOf(<<Leaf>>))>>),
             n_Root) }

\* A field v that is an anyOf of two branches.
AnyOfFirst == { Prim("string"), Prim("integer"), Leaf, Ref(DefRef(n_Cat)) }

AnyOfSecond ==
    { ArrayOf(Prim("string")), ArrayOf(Prim("integer")), ArrayOf(Leaf),
      ArrayOf(Ref(DefRef(n_Cat))), Prim("array"), Schema, Prim("string"),
      [ArrayOf(Prim("string")) EXCEPT !.type_ = <<"array", "null">>],
      [ArrayOf(Prim("string")) EXCEPT !.type_ = <<"null", "array">>] }

AnyOfDocument(first, second) ==
    Titled(WithDefinitions(Object(<<Entry(n_v, AnyOf(<<first, second>>))>>), PetDefinitions),
           n_Root)

AnyOfDocuments == {AnyOfDocument(b1, b2) : b1 \in AnyOfFirst, b2 \in AnyOfSecond}

\* A definition M that is an allOf of up to MaxAllOf branches.
MaxAllOf == 2

MergeBranches ==
    { Required(Schema, <<n_x>>),
      Described(Required(Schema, <<n_y>>), n_first),
      Described(Typed(<<"string", "integer">>), n_second),
      Typed(<<"string">>),
      Required(Object(<<Entry(n_p, Required(Object(<<Entry(n_x, Prim("string"))>>),
                                             <<n_x>>))>>),
               <<n_p>>),
      Described(Object(<<Entry(n_p, Described(Object(<<Entry(n_y, Prim("integer"))>>), n_one)),
                         Entry(n_q, Prim("string"))>>),
                n_two),
      Ref(DefRef(n_Base)) }

BaseSchema == Described(Required(Object(<<Entry(n_a, Prim("string"))>>), <<n_a>>), n_Base)

MergeDocument(branches) ==
    Titled(WithDefinitions(Object(<<>>),
                           <<Entry(n_Base, BaseSchema), Entry(n_M, AllOf(branches))>>),
           n_Root)

MergeDocuments ==
    {MergeDocument(bs) : bs \in UNION {[1..n -> MergeBranches] : n \in 2..MaxAllOf}}

\* A required field r that is a $ref: a prefix ("", "#" or a URI up to its
\* "#") followed by up to MaxRefLen characters.
MaxRefLen == 3

RefChars == {"/", "b", "C", "1", "_", "#"}

RefPrefixes == { <<>>, <<"#">>, <<"h", ":", "x", "#">> }

RefStrings ==
    {pre \o body : pre \in RefPrefixes, body \in UNION {[1..n -> RefChars] : n \in 0..MaxRefLen}}

RefDocument(s) == Titled(Required(Object(<<Entry(n_r, Ref(s))>>), <<n_r>>), n_Root)

RefDocuments == {RefDocument(s) : s \in RefStrings}

\* A definition E with up to MaxEnum enum values, and enumNames absent or
\* of any length up to one more.
MaxEnum == 2

EnumValues == { ValueString(n_red), ValueNumber(1), ValueNull, ValueBool(TRUE) }

EnumNames == <<n_n1, n_n2, n_n3, n_n4>>

EnumSchema(values, names) == [Prim("string") EXCEPT !.enum_ = <<values>>, !.enum_names = names]

EnumSchemas ==
    {EnumSchema(values, names) :
        values \in UNION {[1..n -> EnumValues] : n \in 1..MaxEnum},
        names \in {<<>>} \cup {<<SubSeq(EnumNames, 1, m)>> : m \in 0..(MaxEnum + 1)}}

EnumDocument(sch) == Titled(WithDefinitions(Object(<<>>), <<Entry(n_E, sch)>>), n_Root)

EnumDocuments == {EnumDocument(e) : e \in EnumSchemas}

\* Maps, arrays without items, closed objects, pairs of types.
MiscDocument ==
    Titled(Object(<<
        Entry(n_m, [Prim("object") EXCEPT
                       !.additional_properties = <<ValueObject(Prim("integer"))>>,
                       !.default = <<ValueObject(<<>>)>>]),
        Entry(n_n, Prim("object")),
        Entry(n_l, Prim("array")),
        Entry(n_d, [Prim("object") EXCEPT !.additional_properties = <<ValueBool(FALSE)>>]),
        Entry(n_t, Typed(<<"string", "integer">>)),
        Entry(n_k, Prim("null")),
        Entry(n_c, [Prim("string") EXCEPT !.enum_ = << <<>> >>]),
        Entry(n_b, Prim("boolean")),
        Entry(n_f, Prim("number")) >>),
        n_Root)

\* A struct of one or two fields, each of one of the shapes a field type
\* is synthesized from, required or not; the struct is named Root or like
\* the text of a type.
n_String == <<"S","t","r","i","n","g">>

n_Bool == <<"B","o","o","l">>

n_OptionI64 == <<"O","p","t","i","o","n","I","6","4">>

MapWithDefault == [Prim("object") EXCEPT !.default = <<ValueObject(<<>>)>>]

OneOrMany == AnyOf(<<Prim("string"), ArrayOf(Prim("string"))>>)

FieldShapes ==
    { Prim("string"), Prim("integer"), Prim("boolean"), Prim("number"),
      Typed(<<"integer", "null">>), Typed(<<"null", "string">>),
      OneOrMany, MapWithDefault, Prim("object"), Leaf, Prim("array"),
      [Prim("string") EXCEPT !.enum_ = << <<>> >>],
      [Typed(<<"integer", "null">>) EXCEPT !.any_of = OneOrMany.any_of] }

DefaultableShapes ==
    { Typed(<<"integer", "null">>), OneOrMany, MapWithDefault, Prim("string") }

FieldTitles == { n_Root, n_String, n_Bool, n_OptionI64 }

FieldDocument(title, shape, required) ==
    Titled([Object(<<Entry(n_f, shape)>>) EXCEPT !.required = required], title)

FieldDocuments ==
    {FieldDocument(title, shape, required) :
        title \in FieldTitles, shape \in FieldShapes, required \in {<<>>, << <<n_f>> >>}}

FieldsDocument(first, second, required) ==
    Titled([Object(<<Entry(n_a, first), Entry(n_b, second)>>) EXCEPT !.required = required],
           n_Root)

FieldsDocuments ==
    {FieldsDocument(first, second, required) :
        first \in DefaultableShapes, second \in DefaultableShapes,
        required \in {<<>>, << <<n_a>> >>, << <<n_a, n_b>> >>}}

\* A struct with one array field: the struct's name, the field's name and
\* the array's items vary, and the field is required or not.
ClosedObject == [Prim("object") EXCEPT !.additional_properties = <<ValueBool(FALSE)>>]

ArrayItems == { <<>>, <<Leaf>>, <<Leaf, Prim("string")>>, <<Prim("string")>>, <<ClosedObject>>,
                <<Prim("object")>> }

ArrayDocument(title, field_name, items, required) ==
    Titled([Object(<<Entry(field_name, [Prim("array") EXCEPT !.items = items])>>)
               EXCEPT !.required = IF required THEN << <<field_name>> >> ELSE <<>>],
           title)

ArrayDocuments ==
    {ArrayDocument(title, field_name, items, required) :
        title \in {n_Root, n_B, n_my_root}, field_name \in {n_a, n_a_b, n_aB},
        items \in ArrayItems, required \in BOOLEAN}

\* A map whose values are objects defined inline.
MapOfObjectsDocument ==
    Titled(Object(<<Entry(n_m, [Prim("object") EXCEPT
                                   !.additional_properties = <<ValueObject(Leaf)>>])>>),
           n_Root)

Documents ==
    {PetDocument, EmbeddedDocument, MiscDocument, MapOfObjectsDocument}
        \cup OwnerDocuments \cup NestedDocuments \cup BranchDocuments \cup DefinitionDocuments
        \cup CollisionDocuments \cup PlacedDocuments \cup CompositionDocuments
        \cup AnyOfDocuments \cup MergeDocuments \cup RefDocuments \cup EnumDocuments
        \cup FieldDocuments \cup FieldsDocuments \cup ArrayDocuments

\* A pass is configured with a root name; a $ref to the root without one,
\* and a document without a title, end the pass.
Scenarios ==
    {Scenario(<<n_Root>>, d) : d \in Documents}
        \cup {Scenario(<<>>, RefDocument(s)) : s \in {<<>>, <<"#">>, <<"b">>}}
        \cup {Scenario(<<n_my_root>>, RefDocument(s)) :
                s \in {<<>>, <<"#">>, <<"h", ":", "x", "#">>, <<"#", "/", "b">>}}
        \cup {Scenario(<<n_Root>>, Object(<<>>))}

(***************************************************************************)
(* The pass: Expander::new on a document, then expand_root.                *)
(***************************************************************************)
Init ==
    /\ \E sc \in Scenarios : root_name = sc.root_name /\ root = sc.root
    /\ current_type = <<>>
    /\ current_field = <<>>
    /\ types = <<>>
    /\ stack = <<>>
    /\ ret = <<>>
    /\ status = "new"
    /\ fatal = "none"
    /\ output = <<>>

Next ==
    \/ Expand
    \/ ExpandPush
    \/ ExpandDefinitionsNext
    \/ ExpandDefinitionsPush
    \/ ExpandFieldsStart
    \/ ExpandFieldsNext
    \/ ExpandFieldsField
    \/ ExpandTypeCall
    \/ ExpandTypeRet
    \/ ExpandTypeRef
    \/ ExpandTypeAnyOf
    \/ ExpandTypeOneOrMany
    \/ ExpandTypeOneOf
    \/ ExpandTypeOneOfRet
    \/ ExpandTypePair
    \/ ExpandTypeNullable
    \/ ExpandTypePrimitive
    \/ ExpandTypeInline
    \/ ExpandTypeInlineRet
    \/ ExpandTypeMap
    \/ ExpandTypeMapRet
    \/ ExpandTypeArray
    \/ ExpandTypeArrayRet
    \/ ExpandOneOfStart
    \/ ExpandOneOfNext
    \/ ExpandOneOfVariant
    \/ ExpandSchemaDefinitions
    \/ ExpandSchemaFields
    \/ ExpandSchemaDecide
    \/ ExpandSchemaAlias

Spec == Init /\ [][Next]_vars

(***************************************************************************)
(* The registry as the claims read it.                                     *)
(***************************************************************************)
Registered(name) == \E k \in DOMAIN types : types[k].name = name

EntriesNamed(name) == {k \in DOMAIN types : types[k].name = name}

IsLeaf(decl) == Len(decl.fields) = 1 /\ decl.fields[1].name = n_z

LeafNames == {types[k].name : k \in {j \in DOMAIN types : IsLeaf(types[j].decl)}}

s_RootAB == <<"R","o","o","t","A","B">>

s_RootFVariant1ItemF == <<"R","o","o","t","F","V","a","r","i","a","n","t","1","I","t","e","m","F">>

s_Bitem == <<"B","i","t","e","m">>

\* The name the ancestor chain of Leaf gives (the name it has beside a
\* scalar sibling): Root, a, b; Root, f, the second variant, its items;
\* B, its items.
ChainName(document) ==
    IF document \in NestedDocuments THEN s_RootAB
    ELSE IF document \in BranchDocuments THEN s_RootFVariant1ItemF
    ELSE s_Bitem

\* C2: the name an inline nested object is registered under is a function
\* of its ancestor chain only: Root.a.b is RootAB, and the contents of a
\* sibling field, a sibling definition or a sibling oneOf branch never
\* change the name.
C2_InlineNameFromAncestorChain ==
    (status = "done"
        /\ root \in NestedDocuments \cup BranchDocuments \cup DefinitionDocuments)
    => LeafNames = {ChainName(root)}

(***************************************************************************)
(* Dangling references.                                                    *)
(***************************************************************************)
Elements(option) == IF option = <<>> THEN {} ELSE Range(option[1])

\* The schema nodes directly under a node.
Children(sch) ==
    {sch.properties[i].v : i \in DOMAIN sch.properties}
        \cup {sch.definitions[i].v : i \in DOMAIN sch.definitions}
        \cup Range(sch.items)
        \cup Elements(sch.all_of) \cup Elements(sch.one_of) \cup Elements(sch.any_of)
        \cup {sch.additional_properties[i].o :
                i \in {j \in DOMAIN sch.additional_properties :
                          sch.additional_properties[j].kind = "object"}}

RECURSIVE Nodes(_)
\* Every schema node of a document.
Nodes(sch) == {sch} \cup UNION {Nodes(child) : child \in Children(sch)}

\* A node whose $ref names a definition that is absent from the root's
\* definitions map.
Dangling(sch) ==
    /\ sch.ref_ # <<>>
    /\ starts_with(sch.ref_[1], s_ref_definitions)
    /\ ~map_has(root.definitions,
                SubSeq(sch.ref_[1], Len(s_ref_definitions) + 1, Len(sch.ref_[1])))

Declared == {root} \cup {root.definitions[i].v : i \in DOMAIN root.definitions}

\* A declared node that is, or (having no $ref itself) has as an allOf
\* entry, a dangling $ref: the pass resolves such a $ref to a schema.
ResolvesDangling ==
    \E sch \in Declared :
        \/ Dangling(sch)
        \/ sch.ref_ = <<>> /\ \E entry \in Elements(sch.all_of) : Dangling(entry)

\* The places where a $ref is only named, never resolved.
NamedPlaces == {"property", "one_of", "items", "map", "all_of_property"}

C4_PassEnds == status \in {"new", "running", "done", "panicked"}

(***************************************************************************)
(* oneOf unions.                                                           *)
(***************************************************************************)
s_OwnerPet == <<"O","w","n","e","r","P","e","t">>

s_Variant0 == <<"V","a","r","i","a","n","t","0">>

s_Variant1 == <<"V","a","r","i","a","n","t","1">>

\* The variants of the (first) registry entry of that name.
VariantsOf(name) == types[CHOOSE k \in EntriesNamed(name) : TRUE].decl.variants

\* C5 (as the spec states it): the field pet of Owner, a oneOf of $refs
\* to Cat and Dog, registers one union OwnerPet with the variants Cat(Cat)
\* and Dog(Dog), in that order.
C5_VariantsNamedAfterReferences ==
    (status = "done" /\ root = OwnerDocument(Ref(DefRef(n_Cat)), Ref(DefRef(n_Dog))))
    => /\ Cardinality(EntriesNamed(s_OwnerPet)) = 1
       /\ VariantsOf(s_OwnerPet) = << [name |-> n_Cat, typ |-> n_Cat],
                                      [name |-> n_Dog, typ |-> n_Dog] >>

\* The name of the variant of a branch: its id, or Variant and its
\* position counted from 0.
BranchVariant(branch, position) ==
    IF branch.id # <<>> THEN branch.id[1]
    ELSE IF position = 1 THEN s_Variant0 ELSE s_Variant1

\* The definition a branch refers to.
BranchTarget(branch) == IF branch.ref_ = <<DefRef(n_Cat)>> THEN n_Cat ELSE n_Dog

\* C5 (amended): the field pet of Owner, a oneOf of two branches,
\* registers one untagged union OwnerPet with one variant per branch, in
\* order, named by the branch's id or else Variant0, Variant1; a $ref
\* branch has the referenced name as its payload type and no declaration
\* is registered for it; the oneOf of $refs to Cat and Dog has the
\* variants Variant0(Cat) and Variant1(Dog).
C5_VariantsNamedByPosition ==
    (status = "done" /\ root \in OwnerDocuments)
    => LET branches == root.properties[1].v.one_of[1]
           variants == VariantsOf(s_OwnerPet)
       IN  /\ Cardinality(EntriesNamed(s_OwnerPet)) = 1
           /\ types[CHOOSE k \in EntriesNamed(s_OwnerPet) : TRUE].decl.kind = "union"
           /\ Len(variants) = Len(branches)
           /\ \A i \in DOMAIN branches :
                /\ variants[i].name = BranchVariant(branches[i], i)
                /\ IF branches[i].ref_ # <<>>
                   THEN /\ variants[i].typ = BranchTarget(branches[i])
                        /\ ~Registered(s_OwnerPet \o variants[i].name)
                   ELSE /\ variants[i].typ = s_OwnerPet \o variants[i].name
                        /\ Registered(s_OwnerPet \o variants[i].name)
           /\ root = OwnerDocument(Ref(DefRef(n_Cat)), Ref(DefRef(n_Dog)))
              => variants = << [name |-> s_Variant0, typ |-> n_Cat],
                               [name |-> s_Variant1, typ |-> n_Dog] >>

C5_Witness_UnionOfReferences ==
    /\ status = "done"
    /\ root = OwnerDocument(Ref(DefRef(n_Cat)), Ref(DefRef(n_Dog)))
    /\ Registered(s_OwnerPet)

(***************************************************************************)
(* anyOf.                                                                  *)
(***************************************************************************)
\* The field v of the declaration of the root, once the pass is done.
FieldV == types[Len(types)].decl.fields[1]

\* The first branch and an array of it: the second branch's first declared
\* type is array and its element schema is the first branch.
OneOrManyShape(first, second) ==
    LET simple == effective_schema(first).val
        array == effective_schema(second).val
    IN  /\ array.type_ # <<>>
        /\ array.type_[1] = "array"
        /\ array.items # <<>>
        /\ effective_schema(array.items[1]).val = simple

\* C6: an anyOf of two branches is the one-or-many list (with its codec
\* attribute and implicit default) when the second branch is an array of
\* the first, and the dynamic value for every other shape, an array that
\* declares no items and a branch without type included; no error is
\* raised.
C6_AnyOfNeverFails ==
    root \in AnyOfDocuments
    => /\ status \notin {"panicked", "overflow"}
       /\ status = "done"
          => LET any_of == root.properties[1].v.any_of[1] IN
             IF OneOrManyShape(any_of[1], any_of[2])
             THEN /\ starts_with(FieldV.typ, s_Vec)
                  /\ FieldV.attributes = <<attr_one_or_many>>
                  /\ FieldV.default
             ELSE /\ FieldV.typ = s_Option \o s_Value \o s_close
                  /\ FieldV.attributes = <<attr_skip_serializing>>

(***************************************************************************)
(* The registry over a pass.                                               *)
(***************************************************************************)
IsPrefix(s, t) == Len(s) <= Len(t) /\ SubSeq(t, 1, Len(s)) = s

\* C7: the registry is append-only: each step leaves the registry of the
\* step before with zero or more entries appended, and the declaration
\* sequence expand returns lists the entries in insertion order.
C7_RegistryAppendOnly ==
    [][/\ IsPrefix(types, types')
       /\ status' = "done"
          => /\ Len(output') = Len(types')
             /\ \A k \in DOMAIN types' : output'[k] = types'[k].decl]_vars

C7_Witness_SeveralEntries ==
    /\ status = "done"
    /\ Len(types) >= 4
    /\ Len(output) = Len(types)

(***************************************************************************)
(* allOf.                                                                  *)
(***************************************************************************)
Keys(map) == {map[i].k : i \in DOMAIN map}

LastDescription(views) ==
    LET described == {i \in DOMAIN views : views[i].description # <<>>}
    IN  IF described = {} THEN <<>>
        ELSE views[CHOOSE i \in described : \A j \in described : j <= i].description

RECURSIVE MergedOf(_, _)
\* result is the merge of the views: the union of their required sets, the
\* intersection of their type sets, the description of the last that has
\* one, and under each property name the merge of the views' properties of
\* that name.
MergedOf(result, views) ==
    /\ Elements(result.required) = UNION {Elements(views[i].required) : i \in DOMAIN views}
    /\ Range(result.type_) =
           {e \in Range(views[1].type_) : \A i \in DOMAIN views : e \in Range(views[i].type_)}
    /\ result.description = LastDescription(views)
    /\ Keys(result.properties) = UNION {Keys(views[i].properties) : i \in DOMAIN views}
    /\ \A k \in Keys(result.properties) :
          LET having == SelectSeq(views, LAMBDA v : k \in Keys(v.properties))
              values == [i \in DOMAIN having |-> map_get(having[i].properties, k)]
          IN  IF Len(values) = 1 THEN map_get(result.properties, k) = values[1]
              ELSE MergedOf(map_get(result.properties, k), values)

\* The node whose fields a call of expand_fields expands, and the
\* effective schema the call works on.
FieldsNode(frame) == IF frame.node.ref_ # <<>> THEN schema_ref(frame.node.ref_[1]).val
                     ELSE frame.node

ComposedFrames ==
    {i \in DOMAIN stack :
        /\ stack[i].fn = "expand_fields"
        /\ stack[i].pc # "start"
        /\ Elements(FieldsNode(stack[i]).all_of) # {}}

\* C8: the effective schema of a node with a non-empty allOf list is the
\* merge of the effective schemas of its branches: required is the union
\* of theirs, the declared types the intersection of theirs, the
\* properties their field-by-field (recursive) merge, the description
\* that of the last branch that has one.
C8_EffectiveSchemaMergesBranches ==
    \A i \in ComposedFrames :
        LET all_of == FieldsNode(stack[i]).all_of[1]
        IN  MergedOf(stack[i].eff, [j \in DOMAIN all_of |-> effective_schema(all_of[j]).val])

C8_Witness_Merged ==
    /\ \E i \in ComposedFrames :
          /\ Elements(stack[i].eff.required) = {n_p}
          /\ Elements(map_get(stack[i].eff.properties, n_p).required) = {n_x}
          /\ Keys(map_get(stack[i].eff.properties, n_p).properties) = {n_x, n_y}
          /\ stack[i].eff.description = <<n_two>>

(***************************************************************************)
(* type_ref.                                                               *)
(***************************************************************************)
\* The fragment of a reference string: what follows the "#" of a string
\* that begins with "#" or that is a URI with a fragment, and the string
\* itself otherwise.
FragmentOf(s) ==
    IF s # <<>> /\ s[1] = "#" THEN Tail(s)
    ELSE IF uri_fragment(s) # <<>> THEN uri_fragment(s)[1]
    ELSE s

\* The last "/"-separated segment of a fragment.
LastSegment(f) ==
    IF "/" \in Range(f)
    THEN SubSeq(f, (CHOOSE i \in DOMAIN f : f[i] = "/" /\ \A j \in (i + 1)..Len(f) : f[j] # "/")
                   + 1, Len(f))
    ELSE f

BeginsWithDigit(s) == s # <<>> /\ s[1] \in DigitSet

\* The name the spec's sentence gives.
StatedTypeName(s) ==
    IF FragmentOf(s) = <<>> THEN root_name[1]
    ELSE LET segment == LastSegment(FragmentOf(s))
         IN  IF BeginsWithDigit(segment) THEN <<"_">> \o to_pascal_case(segment)
             ELSE to_pascal_case(segment)

\* A call of expand_type_ on a $ref has returned.
RefNamed == At("expand_type", "ret") /\ Top.node.ref_ # <<>>

\* C9 (as the spec states it): type_ref gives the configured root name
\* for an empty fragment, and else the Pascal-cased last segment of the
\* fragment, with "_" before it when the segment begins with a digit.
C9_TypeRefAsStated == RefNamed => ret.typ = StatedTypeName(Top.node.ref_[1])

\* The name type_ref gives: the root name or the last segment, in Pascal
\* case, with "_" before it when what Pascal case leaves begins with a
\* digit.
PascalTypeName(s) ==
    LET text == IF FragmentOf(s) = <<>> THEN root_name[1] ELSE LastSegment(FragmentOf(s))
    IN  IF BeginsWithDigit(to_pascal_case(text)) THEN <<"_">> \o to_pascal_case(text)
        ELSE to_pascal_case(text)

\* C9 (amended): with the fragment of a reference string being what
\* follows the "#" of a string that begins with "#" or is a URI with a
\* fragment, and the whole string otherwise, type_ref gives the
\* Pascal-cased configured root name for an empty fragment ("", "#", a URI
\* ending in "#"), and else the Pascal-cased last "/"-separated segment of
\* the fragment ("#/only/Fragment" gives "Fragment"); "_" is put before
\* the Pascal-cased text when that text begins with a digit ("1" and "_1"
\* both give "_1").
C9_TypeRefPascalCased == RefNamed => ret.typ = PascalTypeName(Top.node.ref_[1])

C9_Witness_DigitSegment ==
    /\ RefNamed
    /\ Top.node.ref_[1] = <<"#", "/", "1">>
    /\ ret.typ = <<"_", "1">>

(***************************************************************************)
(* enumNames.                                                              *)
(***************************************************************************)
\* The enum definition E of an enum document.
EnumOf(document) == document.definitions[1].v

\* C10 (as the spec states it): an enum whose enumNames is present with a
\* length other than that of enum, zero included, ends the pass with
\* EnumNamesLengthMismatch.
C10_AnyLengthMismatchFails ==
    (/\ root \in EnumDocuments
     /\ EnumOf(root).enum_names # <<>>
     /\ Len(EnumOf(root).enum_names[1]) # Len(EnumOf(root).enum_[1])
     /\ status \notin {"new", "running"})
    => status = "panicked" /\ fatal = "EnumNamesLengthMismatch"

\* C10 (amended): an enum whose enumNames is present and not empty, with a
\* length other than that of enum, ends the pass with
\* EnumNamesLengthMismatch; an empty enumNames is taken as absent.
C10_NonEmptyLengthMismatchFails ==
    /\ (/\ root \in EnumDocuments
        /\ EnumOf(root).enum_names # <<>>
        /\ EnumOf(root).enum_names[1] # <<>>
        /\ Len(EnumOf(root).enum_names[1]) # Len(EnumOf(root).enum_[1])
        /\ status \notin {"new", "running"})
       => status = "panicked" /\ fatal = "EnumNamesLengthMismatch"
    /\ (/\ root \in EnumDocuments
        /\ EnumOf(root).enum_names = << <<>> >>)
       => fatal # "EnumNamesLengthMismatch"

C10_Witness_Mismatch ==
    /\ root \in EnumDocuments
    /\ EnumOf(root).enum_names # <<>>
    /\ Len(EnumOf(root).enum_names[1]) = 3
    /\ Len(EnumOf(root).enum_[1]) = 2
    /\ status = "panicked"
    /\ fatal = "EnumNamesLengthMismatch"

(***************************************************************************)
(* The all-defaults mark of a struct.                                      *)
(***************************************************************************)
Structs == {k \in DOMAIN types : types[k].decl.kind = "struct"}

\* Every field of the struct has an implicitly defaultable type descriptor.
AllFieldsDefaultable(decl) == \A j \in DOMAIN decl.fields : decl.fields[j].default

\* C11: a struct declaration derives Default whenever each of its fields
\* has an implicitly defaultable type descriptor, whichever form the
\* implicit default takes (a nullable pair, a one-or-many container, a map
\* whose declared default is the empty object).
C11_DefaultableFieldsDeriveDefault ==
    \A k \in Structs : AllFieldsDefaultable(types[k].decl) => types[k].decl.derive_default

(***************************************************************************)
(* The type of a struct field, read where expand_fields has it back from   *)
(* expand_type.                                                            *)
(***************************************************************************)
FieldTyped == At("expand_fields", "field")

FieldKey == Top.eff.properties[Top.i].k

FieldValue == Top.eff.properties[Top.i].v

FieldRequired ==
    Top.eff.required # <<>> /\ \E j \in DOMAIN Top.eff.required[1] : Top.eff.required[1][j] = FieldKey

\* No $ref and no anyOf or oneOf of two branches or more: the declared
\* types decide the type.
ByDeclaredTypes(v) ==
    /\ v.ref_ = <<>>
    /\ v.any_of = <<>> \/ Len(v.any_of[1]) < 2
    /\ v.one_of = <<>> \/ Len(v.one_of[1]) < 2

\* A single primitive type other than null; a string with an explicitly
\* empty enum is the dynamic value and is left out.
SinglePrimitive(v) ==
    /\ ByDeclaredTypes(v)
    /\ Len(v.type_) = 1
    /\ v.type_[1] \in {"string", "integer", "number", "boolean"}
    /\ ~(v.type_[1] = "string" /\ v.enum_ = << <<>> >>)

PrimitiveText(v) ==
    CASE v.type_[1] = "string" -> s_String
      [] v.type_[1] = "integer" -> s_i64
      [] v.type_[1] = "number" -> s_f64
      [] v.type_[1] = "boolean" -> s_bool

NullablePair(v) ==
    /\ ByDeclaredTypes(v)
    /\ Len(v.type_) = 2
    /\ \E j \in 1..2 : v.type_[j] = "null"

Inside(typ, wrapper) == SubSeq(typ, Len(wrapper) + 1, Len(typ) - 1)

\* Option<X> with X not itself an Option.
OneOptional(typ) ==
    /\ starts_with(typ, s_Option)
    /\ typ[Len(typ)] = ">"
    /\ ~starts_with(Inside(typ, s_Option), s_Option)

Unboxed(typ) == IF starts_with(typ, s_Box) THEN Inside(typ, s_Box) ELSE typ

\* The Pascal-cased text of the type is the Pascal-cased name of the
\* enclosing type.
NamedLikeEnclosing(typ) == to_pascal_case(Top.name) = to_pascal_case(typ)

s_Option_i64 == <<"O","p","t","i","o","n","<","i","6","4",">">>

PetFields ==
    root = PetDocument /\ FieldTyped =>
        /\ FieldKey = n_name => ret.typ = s_String /\ ret.attributes = <<>>
        /\ FieldKey = n_age =>
              ret.typ = s_Option_i64 /\ ret.attributes = <<attr_skip_serializing>>

\* C12 (as stated): a required property of a single non-null primitive type
\* gets the bare type, no Option and no attribute; a property that is not
\* required and whose type has no implicit default gets exactly one Option
\* and the skip attribute; a nullable pair that is not required gets
\* exactly one Option and the skip attribute (Pet.name is String, Pet.age
\* is Option<i64>).
C12_FieldWrappingAsStated ==
    /\ PetFields
    /\ FieldTyped /\ FieldRequired /\ SinglePrimitive(FieldValue) =>
          ret.typ = PrimitiveText(FieldValue) /\ ret.attributes = <<>>
    /\ FieldTyped /\ ~FieldRequired /\ ~ret.default =>
          OneOptional(ret.typ) /\ ret.attributes = <<attr_skip_serializing>>
    /\ FieldTyped /\ ~FieldRequired /\ NullablePair(FieldValue) =>
          OneOptional(ret.typ) /\ ret.attributes = <<attr_skip_serializing>>

\* C12 (amended): as stated for a property whose type is decided by its
\* declared types, except that a type whose Pascal-cased text is the
\* Pascal-cased name of the enclosing type is put in a Box first: the
\* required primitive is then Box<T>, and the nullable pair that is not
\* required is Box<Option<T>> without the skip attribute.
C12_FieldWrappingWithBox ==
    /\ PetFields
    /\ FieldTyped /\ FieldRequired /\ SinglePrimitive(FieldValue) =>
          /\ ret.typ = IF NamedLikeEnclosing(PrimitiveText(FieldValue))
                       THEN s_Box \o PrimitiveText(FieldValue) \o s_close
                       ELSE PrimitiveText(FieldValue)
          /\ ret.attributes = <<>>
    /\ FieldTyped /\ ~FieldRequired /\ ~ret.default =>
          OneOptional(ret.typ) /\ ret.attributes = <<attr_skip_serializing>>
    /\ FieldTyped /\ ~FieldRequired /\ NullablePair(FieldValue) =>
          /\ OneOptional(Unboxed(ret.typ))
          /\ starts_with(ret.typ, s_Box) <=> NamedLikeEnclosing(Unboxed(ret.typ))
          /\ ret.attributes =
                IF starts_with(ret.typ, s_Box) THEN <<>> ELSE <<attr_skip_serializing>>

C12_Witness_PetAge ==
    /\ root = PetDocument
    /\ FieldTyped
    /\ FieldKey = n_age
    /\ ~FieldRequired
    /\ NullablePair(FieldValue)
    /\ ret.typ = s_Option_i64

(***************************************************************************)
(* The Identifier Sanitizer on its own: str_to_ident applied to a name, as *)
(* expand_one_of applies it to the current field name.  The name is drawn  *)
(* from the words of up to MaxNameLen characters of NameChars.             *)
(***************************************************************************)
MaxNameLen == 3

NameChars == {"_", "$", "-", "1", "a", "s"}

IdentNames == UNION {[1..n -> NameChars] : n \in 0..MaxNameLen}

InitIdent ==
    /\ current_field \in IdentNames
    /\ root_name = <<>>
    /\ root = Schema
    /\ current_type = <<>>
    /\ types = <<>>
    /\ stack = <<>>
    /\ ret = <<>>
    /\ status = "new"
    /\ fatal = "none"
    /\ output = <<>>

StrToIdent ==
    /\ status = "new"
    /\ ret' = str_to_ident(current_field)
    /\ status' = "done"
    /\ UNCHANGED <<root_name, root, current_type, current_field, types, stack, fatal, output>>

NextIdent == StrToIdent

SpecIdent == InitIdent /\ [][NextIdent]_vars

\* The result of the steps of the sanitizer: strip a leading "$", replace
\* the invalid characters, prefix a leading digit, collapse the runs of "_".
SanitizerSteps(s) ==
    remove_excess_underscores(replace_numeric_start(replace_invalid_identifier_chars(s)))

OnlyUnderscores(s) == s # <<>> /\ \A i \in DOMAIN s : s[i] = "_"

s_empty_ == <<"e","m","p","t","y","_">>

s_underscore_ == <<"u","n","d","e","r","s","c","o","r","e","_">>

\* C13: str_to_ident returns empty_ when the result of its steps is empty
\* and underscore_ when that result holds only "_" characters, so it never
\* returns an identifier made only of underscores.
C13_SentinelsOnFinalResult ==
    status = "done" =>
        /\ SanitizerSteps(current_field) = <<>> => ret = s_empty_
        /\ OnlyUnderscores(SanitizerSteps(current_field)) => ret = s_underscore_
        /\ ~OnlyUnderscores(ret)

(***************************************************************************)
(* The naming context around the recursive calls of the Type Synthesizer.  *)
(***************************************************************************)
\* A step in which the call on top of the stack returns to its caller.
Returns == status = "running" /\ Len(stack) >= 2 /\ stack' = Popped

Caller == stack[Len(stack) - 1]

ReturnsFromField == Returns /\ Top.fn = "expand_type" /\ Caller.fn = "expand_fields"

ReturnsFromElement ==
    Returns /\ Top.fn = "expand_type_" /\ Caller.fn = "expand_type_" /\ Caller.pc = "array"

ReturnsFromMapValue ==
    Returns /\ Top.fn = "expand_type_" /\ Caller.fn = "expand_type_" /\ Caller.pc = "map"

ReturnsFromBranch ==
    Returns /\ Top.fn = "expand_schema" /\ Caller.fn = "expand_one_of" /\ Caller.pc = "variant"

ContextRestored == current_type' = Top.called_type /\ current_field' = Top.called_field

\* C14: when the expansion of a field, of an array element, of a map value
\* or of a union branch returns, the current type name and the current
\* field name are what they were when that call was made.
C14_ContextRestoredOnReturn ==
    [][ReturnsFromField \/ ReturnsFromElement \/ ReturnsFromMapValue \/ ReturnsFromBranch
          => ContextRestored]_vars

(***************************************************************************)
(* The elements of an array field, read where expand_type has the type of  *)
(* the field back from expand_type_.                                       *)
(***************************************************************************)
ArrayFieldExpanded ==
    /\ At("expand_type", "ret")
    /\ Caller.fn = "expand_fields"
    /\ ByDeclaredTypes(Top.node)
    /\ Top.node.type_ = <<"array">>

\* The first items entry is an object defined inline, with properties.
ItemsInlineObject(v) ==
    /\ v.items # <<>>
    /\ ByDeclaredTypes(v.items[1])
    /\ v.items[1].type_ = <<"object">>
    /\ v.items[1].properties # <<>>

ListOf(name) == s_Vec \o name \o s_close

RegisteredStruct(name) ==
    \E k \in DOMAIN types : types[k].name = name /\ types[k].decl.kind = "struct"

\* T + Pascal(f) + "Item", for the field f of the enclosing type T.
StatedElementName ==
    pascal_case_name(Caller.name) \o to_pascal_case(Caller.eff.properties[Caller.i].k) \o s_Item

\* Pascal(T + "Item") + Pascal(f)
ItemContextElementName ==
    to_pascal_case(pascal_case_name(Caller.name) \o s_Item)
        \o to_pascal_case(Caller.eff.properties[Caller.i].k)

\* C15 (as stated): the element struct of an array field f of type T whose
\* first items entry is an inline object with properties is registered as
\* T + Pascal(f) + "Item" and the field is a list of that name; without
\* items the field is a list of the dynamic value.
C15_ElementNamedFieldItem ==
    ArrayFieldExpanded =>
        /\ ItemsInlineObject(Top.node) =>
              ret.typ = ListOf(StatedElementName) /\ RegisteredStruct(StatedElementName)
        /\ Top.node.items = <<>> => ret.typ = ListOf(s_Value)

\* C15 (amended): the element struct is registered as Pascal(T + "Item") +
\* Pascal(f), the "Item" suffix being put on the enclosing type's name, and
\* the field is a list of that name; without items the field is a list of
\* the dynamic value.
C15_ElementNamedItemField ==
    ArrayFieldExpanded =>
        /\ ItemsInlineObject(Top.node) =>
              ret.typ = ListOf(ItemContextElementName)
                  /\ RegisteredStruct(ItemContextElementName)
        /\ Top.node.items = <<>> => ret.typ = ListOf(s_Value)

s_RootItemA == <<"R","o","o","t","I","t","e","m","A">>

C15_Witness_RootItemA ==
    /\ ArrayFieldExpanded
    /\ ItemsInlineObject(Top.node)
    /\ Caller.name = n_Root
    /\ Caller.eff.properties[Caller.i].k = n_a
    /\ ret.typ = ListOf(s_RootItemA)
    /\ RegisteredStruct(s_RootItemA)

(***************************************************************************)
(* The order of the registry: a declaration is pushed when its expansion   *)
(* has returned, after everything that expansion discovered.               *)
(***************************************************************************)
\* The places a caller has a declaration back from its expansion and pushes
\* it: expand, expand_definitions, the inline object and the oneOf arms of
\* expand_type_, and the variant of expand_one_of.
HasDeclarationBack ==
    \/ At("expand", "push")
    \/ At("expand_definitions", "push")
    \/ At("expand_type_", "inline")
    \/ At("expand_type_", "one_of")
    \/ At("expand_one_of", "variant")

\* The declaration the expansion that has just returned gave back.
ReturnedDeclaration == IF At("expand_type_", "one_of") THEN ret.decl ELSE ret

Undocumented(decl) == [decl EXCEPT !.doc = <<>>]

\* The registry grows by the returned declaration, as its last entry.
PushesReturnedDeclaration ==
    /\ HasDeclarationBack
    /\ Len(types') = Len(types) + 1
    /\ SubSeq(types', 1, Len(types)) = types
    /\ Undocumented(types'[Len(types')].decl) = Undocumented(ReturnedDeclaration)

\* Every entry of the first name is before every entry of the second, and
\* both names are registered.
Before(first, second) ==
    /\ Registered(first)
    /\ Registered(second)
    /\ \A i \in EntriesNamed(first), j \in EntriesNamed(second) : i < j

s_RootItemAC == <<"R","o","o","t","I","t","e","m","A","C">>

s_RootKM == <<"R","o","o","t","K","M">>

s_RootK == <<"R","o","o","t","K">>

s_OwnerPetVariant0 == <<"O","w","n","e","r","P","e","t","V","a","r","i","a","n","t","0">>

s_OwnerPetVariant1 == <<"O","w","n","e","r","P","e","t","V","a","r","i","a","n","t","1">>

RootLast ==
    /\ types # <<>>
    /\ types[Len(types)].name = root.title[1]
    /\ root.title[1] = n_Root => EntriesNamed(n_Root) = {Len(types)}

NestedOrder ==
    /\ root \in NestedDocuments => Before(s_RootAB, n_RootA) /\ Before(n_RootA, n_Root)
    /\ root = EmbeddedDocument =>
          /\ Before(s_RootItemAC, s_RootItemA) /\ Before(s_RootItemA, n_Root)
          /\ Before(s_RootKM, s_RootK) /\ Before(s_RootK, n_Root)
    /\ root = OwnerDocument(Leaf, Leaf) =>
          /\ Before(s_OwnerPetVariant0, s_OwnerPet)
          /\ Before(s_OwnerPetVariant1, s_OwnerPet)
          /\ Before(s_OwnerPet, n_Owner)
          /\ Before(n_Cat, n_Owner)
          /\ Before(n_Dog, n_Owner)

\* C16: an entry is pushed only when the expansion of its declaration has
\* returned, as the last entry, so that every declaration discovered during
\* that expansion (inline struct, oneOf union, oneOf variant, nested
\* definition) is before it; at the end of a successful pass the entry of
\* the root (named by the title) is the last one.
C16_DiscoveredBeforeEnclosing ==
    /\ [][types' # types => PushesReturnedDeclaration]_vars
    /\ [](status = "done" => RootLast /\ NestedOrder)

C16_Witness_NestedOrder ==
    /\ status = "done"
    /\ root = EmbeddedDocument
    /\ Before(s_RootItemAC, s_RootItemA)
    /\ Before(s_RootItemA, n_Root)
    /\ types[Len(types)].name = n_Root

=============================================================================
